---- MODULE Spec2Model ----
(***************************************************************************)
(* Warehouse bot (main.py v0.9.4): the SQL safety validator, the           *)
(* transactional executor with its audit log, the on_message pipeline, and *)
(* the two readers of the store, build_stock_context and cmd_logs.         *)
(*                                                                         *)
(* Spec: the handler tasks as the dispatcher runs them, interleaved.       *)
(* SpecSeq: one message at a time, with a wider menu of answers.           *)
(* SpecV, SpecLogs, SpecContext: validate_sql, cmd_logs and                *)
(* build_stock_context on their own, over inputs drawn in the first state. *)
(*                                                                         *)
(* SQL text is modelled as a sequence of tokens.  Two adjacent word tokens *)
(* are separated by whitespace in the text; the tokens " " and "<nl>" are  *)
(* extra blanks and line breaks, ";" is the statement separator.           *)
(***************************************************************************)
EXTENDS Integers, Sequences, FiniteSets, TLC

VARIABLES
    db,         \* the connection's view of the four tables (uncommitted writes included)
    disk,       \* the tables as last committed
    inTx,       \* whether the shared connection has an open transaction
    pc,         \* per handler task: the await it is suspended at
    req,        \* per handler task: the locals of on_message / run_sql
    utterances, \* number of text messages received so far
    candidate,  \* validator harness: the script handed to validate_sql
    verdict,    \* validator harness: what validate_sql returned for it
    limit,      \* the limit argument of build_stock_context
    shown       \* the text last built by build_stock_context or cmd_logs

vars == <<db, disk, inTx, pc, req, utterances, candidate, verdict, limit, shown>>

(***************************************************************************)
(* Bounds of the model.                                                    *)
(***************************************************************************)
MaxFrags == 7
MaxUtterances == 2
MaxLog == 17
MaxStock == 21

\* build_stock_context(db, limit = 20)
DefaultLimit == 20
\* cmd_logs: LIMIT 15
LogsLimit == 15

NothingShown == [done |-> FALSE, by |-> "", lines |-> <<>>, more |-> FALSE]

(***************************************************************************)
(* Lexical layer.                                                          *)
(***************************************************************************)
WS == {" ", "<nl>"}

\* re.I: tokens are compared after case folding.
FoldTable ==
    [t \in {"drop", "Pragma", "delete", "from", "with", "Items", "STOCK",
            "where", "ITEM_ID", "Location_Code", "select", "a1"} |->
        CASE t = "drop" -> "DROP"
          [] t = "Pragma" -> "PRAGMA"
          [] t = "delete" -> "DELETE"
          [] t = "from" -> "FROM"
          [] t = "with" -> "WITH"
          [] t = "Items" -> "items"
          [] t = "STOCK" -> "stock"
          [] t = "where" -> "WHERE"
          [] t = "ITEM_ID" -> "item_id"
          [] t = "Location_Code" -> "location_code"
          [] t = "select" -> "SELECT"
          [] t = "a1" -> "A1"]

Fold(t) == IF t \in DOMAIN FoldTable THEN FoldTable[t] ELSE t

\* str.split(";"): the fragments between separators, empty ones included.
RECURSIVE SplitFrom(_, _)
SplitFrom(sql, i) ==
    LET seps == {k \in i..Len(sql) : sql[k] = ";"} IN
        IF seps = {} THEN <<SubSeq(sql, i, Len(sql))>>
        ELSE LET k == CHOOSE k \in seps : \A m \in seps : k <= m IN
                 <<SubSeq(sql, i, k - 1)>> \o SplitFrom(sql, k + 1)

Split(sql) == SplitFrom(sql, 1)

\* str.strip(): leading and trailing whitespace removed.
RECURSIVE LStrip(_)
LStrip(s) == IF s # <<>> /\ Head(s) \in WS THEN LStrip(Tail(s)) ELSE s

RECURSIVE RStrip(_)
RStrip(s) ==
    IF s # <<>> /\ s[Len(s)] \in WS THEN RStrip(SubSeq(s, 1, Len(s) - 1)) ELSE s

Strip(s) == RStrip(LStrip(s))

IsWord(t) == t \notin WS

\* "; ".join(stmts)
RECURSIVE Join(_)
Join(ss) ==
    IF ss = <<>> THEN <<>>
    ELSE IF Len(ss) = 1 THEN ss[1]
    ELSE ss[1] \o <<";", " ">> \o Join(Tail(ss))

(***************************************************************************)
(* validate_sql and its patterns.                                          *)
(***************************************************************************)
ForbiddenVerbs == {"DROP", "ALTER", "TRUNCATE", "PRAGMA", "ATTACH", "DETACH"}
SafeVerbs == {"SELECT", "INSERT", "UPDATE", "DELETE"}

\* FORBIDDEN_PATTERN.match(s): ^\s*(DROP|...)\b, case-insensitive
FORBIDDEN_PATTERN(s) ==
    LET t == LStrip(s) IN t # <<>> /\ Fold(t[1]) \in ForbiddenVerbs

\* SAFE_SQL_PATTERN.match(s): ^\s*(WITH\b[\s\S]+?\b(verb)|verb)\b
SAFE_SQL_PATTERN(s) ==
    LET t == LStrip(s) IN
        /\ t # <<>>
        /\ \/ Fold(t[1]) \in SafeVerbs
           \/ /\ Fold(t[1]) = "WITH"
              /\ \E k \in 2..Len(t) : Fold(t[k]) \in SafeVerbs

\* re.match(r"^\s*DELETE\s+FROM\s+<table>\b", s, re.I)
DeleteFromAtStart(s, table) ==
    LET w == SelectSeq(s, IsWord) IN
        /\ Len(w) >= 3
        /\ Fold(w[1]) = "DELETE"
        /\ Fold(w[2]) = "FROM"
        /\ Fold(w[3]) = table

\* re.search(r"\bWHERE\b.*\bitem_id\b.*\blocation_code\b", s, re.I);
\* "." does not match a line break.
WhereItemThenLocation(s) ==
    \E i, j, k \in 1..Len(s) :
        /\ i < j /\ j < k
        /\ Fold(s[i]) = "WHERE"
        /\ Fold(s[j]) = "item_id"
        /\ Fold(s[k]) = "location_code"
        /\ \A m \in i..k : s[m] # "<nl>"

NonEmpty(s) == s # <<>>

\* stmts = [s.strip() for s in sql.split(";") if s.strip()]
Statements(sql) ==
    LET parts == Split(sql) IN
        SelectSeq([n \in 1..Len(parts) |-> Strip(parts[n])], NonEmpty)

StatementOk(s) ==
    /\ ~FORBIDDEN_PATTERN(s)
    /\ SAFE_SQL_PATTERN(s)
    /\ ~(DeleteFromAtStart(s, "stock") /\ ~WhereItemThenLocation(s))
    /\ ~DeleteFromAtStart(s, "items")

\* The result None is [ok |-> FALSE, stmts |-> <<>>].
Rejected == [ok |-> FALSE, stmts |-> <<>>]

\* Mutant: only the first statement goes through the per-statement rules.
validate_sql_first_only(sql) ==
    LET stmts == Statements(sql) IN
        IF ~(1 <= Len(stmts) /\ Len(stmts) <= 6) THEN Rejected
        ELSE IF StatementOk(stmts[1])
             THEN [ok |-> TRUE, stmts |-> stmts]
             ELSE Rejected

\* Mutant: the upper bound on the statement count is off by one.
validate_sql_below_six(sql) ==
    LET stmts == Statements(sql) IN
        IF ~(1 <= Len(stmts) /\ Len(stmts) < 6) THEN Rejected
        ELSE IF \A n \in 1..Len(stmts) : StatementOk(stmts[n])
             THEN [ok |-> TRUE, stmts |-> stmts]
             ELSE Rejected

validate_sql(sql) ==
    LET stmts == Statements(sql) IN
        IF ~(1 <= Len(stmts) /\ Len(stmts) <= 6) THEN Rejected
        ELSE IF \A n \in 1..Len(stmts) : StatementOk(stmts[n])
             THEN [ok |-> TRUE, stmts |-> stmts]
             ELSE Rejected


(***************************************************************************)
(* The store: SCHEMA and init_db.                                          *)
(***************************************************************************)
ALLOWED_SIZES == {"XS", "S", "M", "L", "XL", "XXL", "XXXL"}
\* The six Cyrillic row letters, transliterated.
LOCATION_ROWS == {"A", "B", "V", "G", "D", "E"}
LOCATION_COLS == 1..10

TableNames == {"items", "locations", "stock", "tx_log"}

\* executescript(SCHEMA) on a new file: four empty tables, foreign keys on.
SCHEMA ==
    [items |-> {}, locations |-> {}, stock |-> {}, tx_log |-> {},
     itemSeq |-> 0, logSeq |-> 0]

\* init_db: the schema, then INSERT OR IGNORE of every row x column code.
init_db ==
    [SCHEMA EXCEPT
        !.locations = {[code |-> r \o ToString(c)] :
                            r \in LOCATION_ROWS, c \in LOCATION_COLS}]

(***************************************************************************)
(* The SQL engine, as far as the statements of the model go: a statement   *)
(* is parsed into an operation, and an operation either changes the tables *)
(* or fails and leaves them as they were (statement-level atomicity).      *)
(***************************************************************************)
\* SQL NULL in an integer column; in a text column it is the string "NULL".
Null == 0 - 1

Num(t) == IF t = "NULL" THEN Null ELSE CHOOSE n \in 0..9 : ToString(n) = t

IndexOf(w, tok) ==
    IF \E p \in 1..Len(w) : Fold(w[p]) = tok
    THEN CHOOSE p \in 1..Len(w) :
            /\ Fold(w[p]) = tok
            /\ \A q \in 1..(p - 1) : Fold(w[q]) # tok
    ELSE 0

\* The statement after its common-table-expression prefix, blanks dropped.
CteBody(s) ==
    LET w == SelectSeq(s, IsWord) IN
        IF w # <<>> /\ Fold(w[1]) = "WITH"
        THEN SubSeq(w, IndexOf(w, ")") + 1, Len(w))
        ELSE w

\* The conditions col = val of the where-clause, as a set of pairs.
Conds(w) ==
    LET p == IndexOf(w, "WHERE") IN
        IF p = 0 THEN {}
        ELSE {<<Fold(w[q]), w[q + 2]>> :
                q \in {q \in (p + 1)..(Len(w) - 2) : w[q + 1] = "="}}

SyntaxError == [kind |-> "error", table |-> "", conds |-> {}, args |-> <<>>]

Parse(s) ==
    LET w == CteBody(s)
        v == IF w = <<>> THEN "" ELSE Fold(w[1])
    IN
        IF v = "SELECT" /\ Len(w) >= 4 /\ Fold(w[3]) = "FROM" /\ Fold(w[4]) \in TableNames
        THEN [kind |-> "select", table |-> Fold(w[4]), conds |-> Conds(w), args |-> <<>>]
        ELSE IF v = "DELETE" /\ Len(w) >= 3 /\ Fold(w[2]) = "FROM" /\ Fold(w[3]) \in TableNames
        THEN [kind |-> "delete", table |-> Fold(w[3]), conds |-> Conds(w), args |-> <<>>]
        ELSE IF v = "UPDATE" /\ Len(w) >= 6 /\ Fold(w[2]) \in TableNames /\ w[3] = "SET"
        THEN [kind |-> "update", table |-> Fold(w[2]), conds |-> Conds(w),
              args |-> SubSeq(w, 4, 6)]
        ELSE IF v = "INSERT" /\ Len(w) >= 7 /\ w[2] = "OR" /\ w[3] = "IGNORE"
                /\ w[4] = "INTO" /\ Fold(w[5]) \in TableNames /\ w[6] = "VALUES"
        THEN [kind |-> "insert_or_ignore", table |-> Fold(w[5]), conds |-> {},
              args |-> SubSeq(w, 7, Len(w))]
        ELSE IF v = "INSERT" /\ Len(w) >= 5 /\ w[2] = "INTO"
                /\ Fold(w[3]) \in TableNames /\ w[4] = "VALUES"
        THEN [kind |-> IF IndexOf(w, "ON") > 0 THEN "upsert" ELSE "insert",
              table |-> Fold(w[3]), conds |-> {},
              args |-> SubSeq(w, 5, IF IndexOf(w, "ON") > 0
                                    THEN IndexOf(w, "ON") - 1 ELSE Len(w))]
        ELSE SyntaxError

IntColumns == {"id", "item_id", "qty", "success"}

\* Whether a row satisfies every condition (text compares under NOCASE).
Matches(row, conds) ==
    \A c \in conds :
        IF c[1] \in IntColumns
        THEN Num(c[2]) # Null /\ row[c[1]] = Num(c[2])
        ELSE c[2] # "NULL" /\ Fold(row[c[1]]) = Fold(c[2])

Selected(t, op) == {row \in t[op.table] : Matches(row, op.conds)}

Failed(t) == [ok |-> FALSE, t |-> t, rows |-> {}]
Done(t) == [ok |-> TRUE, t |-> t, rows |-> {}]

\* A foreign key is satisfied by a parent row, and by NULL in the child.
HasItem(t, id) == id = Null \/ \E i \in t.items : i.id = id
HasLocation(t, code) ==
    code = "NULL" \/ \E l \in t.locations : Fold(l.code) = Fold(code)

\* ON DELETE CASCADE of both foreign keys of stock.
Cascade(t) ==
    [t EXCEPT !.stock =
        {s \in t.stock : HasItem(t, s.item_id) /\ HasLocation(t, s.location_code)}]

ApplyDelete(t, op) ==
    Done(Cascade([t EXCEPT ![op.table] = t[op.table] \ Selected(t, op)]))

\* Mutant: the stock table without its CHECK(qty > 0).
ApplyUpdate_unchecked(t, op) ==
    IF op.table = "stock" /\ op.args[1] = "qty" /\ op.args[2] \in {"+", "-"}
    THEN LET d == IF op.args[2] = "+" THEN Num(op.args[3]) ELSE 0 - Num(op.args[3])
             hit == Selected(t, op)
         IN  Done([t EXCEPT !.stock = (t.stock \ hit) \cup
                     {[r EXCEPT !.qty = IF @ = Null THEN Null ELSE @ + d] : r \in hit}])
    ELSE Failed(t)

ApplyUpdate(t, op) ==
    IF op.table = "stock" /\ op.args[1] = "qty" /\ op.args[2] \in {"+", "-"}
    THEN LET d == IF op.args[2] = "+" THEN Num(op.args[3]) ELSE 0 - Num(op.args[3])
             hit == Selected(t, op)
         IN  IF \E r \in hit : r.qty # Null /\ r.qty + d <= 0      \* CHECK(qty > 0)
             THEN Failed(t)
             ELSE Done([t EXCEPT !.stock = (t.stock \ hit) \cup
                         {[r EXCEPT !.qty = IF @ = Null THEN Null ELSE @ + d] :
                            r \in hit}])
    ELSE IF op.table = "tx_log" /\ op.args[1] = "success" /\ op.args[2] = "="
    THEN LET hit == Selected(t, op) IN
            Done([t EXCEPT !.tx_log = (t.tx_log \ hit) \cup
                    {[r EXCEPT !.success = Num(op.args[3])] : r \in hit}])
    ELSE Failed(t)

\* INSERT [OR IGNORE] INTO items VALUES name size
InsertItem(t, op) ==
    LET name == op.args[1]
        size == op.args[2]
        badSize == size # "NULL" /\ size \notin ALLOWED_SIZES         \* CHECK
        clash == size # "NULL" /\ \E i \in t.items :                  \* UNIQUE
                    Fold(i.name) = Fold(name) /\ i.size = size
    IN  IF Len(op.args) # 2 THEN Failed(t)
        ELSE IF badSize \/ clash
        THEN IF op.kind = "insert_or_ignore" THEN Done(t) ELSE Failed(t)
        ELSE Done([t EXCEPT
                !.items = @ \cup {[id |-> t.itemSeq + 1, name |-> name, size |-> size]},
                !.itemSeq = @ + 1])

\* INSERT [OR IGNORE] INTO locations VALUES code
InsertLocation(t, op) ==
    IF Len(op.args) # 1 THEN Failed(t)
    ELSE IF \E l \in t.locations : Fold(l.code) = Fold(op.args[1])    \* PRIMARY KEY
    THEN IF op.kind = "insert_or_ignore" THEN Done(t) ELSE Failed(t)
    ELSE Done([t EXCEPT !.locations = @ \cup {[code |-> op.args[1]]}])

\* INSERT INTO stock VALUES item_id location_code qty [ON CONFLICT DO UPDATE]
InsertStock(t, op) ==
    IF Len(op.args) # 3 THEN Failed(t)
    ELSE
    LET id == Num(op.args[1])
        loc == op.args[2]
        q == Num(op.args[3])
        old == {s \in t.stock : /\ id # Null /\ loc # "NULL"
                                /\ s.item_id = id
                                /\ Fold(s.location_code) = Fold(loc)}
    IN  IF q # Null /\ q <= 0 THEN                                    \* CHECK
            IF op.kind = "insert_or_ignore" THEN Done(t) ELSE Failed(t)
        ELSE IF old # {} THEN                                         \* PRIMARY KEY
            IF op.kind = "upsert"
            THEN Done([t EXCEPT !.stock = (t.stock \ old) \cup
                        {[s EXCEPT !.qty = IF @ = Null \/ q = Null THEN Null ELSE @ + q] :
                            s \in old}])
            ELSE IF op.kind = "insert_or_ignore" THEN Done(t) ELSE Failed(t)
        ELSE IF ~HasItem(t, id) \/ ~HasLocation(t, loc)               \* FOREIGN KEY
        THEN Failed(t)
        ELSE Done([t EXCEPT !.stock = @ \cup
                    {[item_id |-> id, location_code |-> loc, qty |-> q]}])

Columns(table) ==
    CASE table = "items" -> {"id", "name", "size"}
      [] table = "locations" -> {"code"}
      [] table = "stock" -> {"item_id", "location_code", "qty"}
      [] table = "tx_log" -> {"id", "user", "sql_text", "summary", "success"}
      [] OTHER -> {}

\* One statement run by the engine: [ok, t, rows].
Execute(t, s) ==
    LET op == Parse(s) IN
        IF \E c \in op.conds : c[1] \notin Columns(op.table)   \* no such column
        THEN Failed(t)
        ELSE CASE op.kind = "select" ->
                    [ok |-> TRUE, t |-> t, rows |-> Selected(t, op)]
               [] op.kind = "delete" -> ApplyDelete(t, op)
               [] op.kind = "update" -> ApplyUpdate(t, op)
               [] op.kind \in {"insert", "insert_or_ignore", "upsert"} ->
                    CASE op.table = "items" -> InsertItem(t, op)
                      [] op.table = "locations" -> InsertLocation(t, op)
                      [] op.table = "stock" -> InsertStock(t, op)
                      [] OTHER -> Failed(t)
               [] OTHER -> Failed(t)

\* sqlite3 opens a transaction by itself before a statement that starts with
\* INSERT, UPDATE, DELETE or REPLACE when none is open.
IsDml(s) ==
    LET w == SelectSeq(s, IsWord) IN
        w # <<>> /\ Fold(w[1]) \in {"INSERT", "UPDATE", "DELETE", "REPLACE"}


(***************************************************************************)
(* What the command-generation collaborator may answer.                    *)
(***************************************************************************)
stAddItem == <<"INSERT", "OR", "IGNORE", "INTO", "items", "VALUES", "bolt", "L">>
stPut3A1 == <<"INSERT", "INTO", "stock", "VALUES", "1", "A1", "3",
              "ON", "CONFLICT", "DO", "UPDATE">>
stPut5A2 == <<"INSERT", "INTO", "stock", "VALUES", "1", "A2", "5",
              "ON", "CONFLICT", "DO", "UPDATE">>
stTake5A1 == <<"UPDATE", "stock", "SET", "qty", "-", "5",
               "WHERE", "item_id", "=", "1", "AND", "location_code", "=", "A1">>
stDelA1 == <<"DELETE", "FROM", "stock",
             "WHERE", "item_id", "=", "1", "AND", "location_code", "=", "A1">>
stDelA1Rev == <<"DELETE", "FROM", "stock",
                "WHERE", "location_code", "=", "A1", "AND", "item_id", "=", "1">>
stDelByItem == <<"DELETE", "FROM", "stock", "WHERE", "item_id", "=", "1">>
stDelStock == <<"DELETE", "FROM", "stock">>
stDelItems == <<"DELETE", "FROM", "items">>
stCte == <<"WITH", "x", "AS", "(", "SELECT", "1", ")">>
stCteDelStock == stCte \o stDelStock
stCteDelItems == stCte \o stDelItems
stDelLog == <<"DELETE", "FROM", "tx_log">>
stFixLog == <<"UPDATE", "tx_log", "SET", "success", "=", "1">>
stDelLoc == <<"DELETE", "FROM", "locations", "WHERE", "code", "=", "A2">>
stAddLoc == <<"INSERT", "INTO", "locations", "VALUES", "Z9">>
stSelect == <<"SELECT", "qty", "FROM", "stock">>
stDrop == <<"DROP", "TABLE", "stock">>
stBroken == <<"SELECT", "FROM">>
stPutNoItem == <<"INSERT", "INTO", "stock", "VALUES", "NULL", "A1", "5">>
stAddNoSize == <<"INSERT", "OR", "IGNORE", "INTO", "items", "VALUES", "tape", "NULL">>

Answer(sql, mode, summary) ==
    [isDict |-> TRUE, uncaught |-> FALSE, error |-> "",
     sql |-> sql, mode |-> mode, summary |-> summary]

Payloads ==
    { [isDict |-> FALSE, uncaught |-> FALSE, error |-> "",
       sql |-> <<>>, mode |-> "", summary |-> ""],
      [isDict |-> TRUE, uncaught |-> FALSE, error |-> "not enough",
       sql |-> <<>>, mode |-> "", summary |-> ""],
      Answer(<<>>, "write", "nothing"),
      Answer(stSelect, "exec", ""),
      Answer(stSelect \o <<";">>, "read", ""),
      Answer(stAddItem \o <<";", "<nl>">> \o stPut3A1 \o <<";">>, "write", "added 3"),
      Answer(stPut5A2 \o <<";", " ">> \o stTake5A1, "write", "moved 5"),
      Answer(stDelA1, "write", "removed"),
      Answer(stDelByItem, "write", "removed"),
      Answer(stCteDelItems, "write", ""),
      Answer(stDelLog, "write", "tidy"),
      Answer(stFixLog, "write", "tidy"),
      Answer(stDelLoc, "write", "closed A2"),
      Answer(stAddLoc, "write", "opened Z9"),
      Answer(stDrop, "write", "reset"),
      Answer(stBroken, "read", "") }

\* Answers the sequential specification adds to the menu.
MorePayloads ==
    { [isDict |-> TRUE, uncaught |-> TRUE, error |-> "",
       sql |-> <<>>, mode |-> "", summary |-> ""],
      Answer(stAddNoSize, "write", "new item"),
      Answer(stAddItem, "read", ""),
      Answer(stPutNoItem, "write", "added 5") }

\* Mutant: the mode tag is not looked at.
FormatOk_any_mode(p) == p.sql # <<>>

\* on_message, line 377: not (not sql or mode not in {"read", "write"})
FormatOk(p) == p.sql # <<>> /\ p.mode \in {"read", "write"}

Handlers == {"h1", "h2"}

\* msg.from_user.username or "unknown_user"
Username(h) == IF h = "h1" THEN "alice" ELSE "unknown_user"

\* msg.text.strip()
Prompt == <<"take", "5", "bolts">>

(***************************************************************************)
(* The handler tasks.  An action is the code of on_message / run_sql from  *)
(* one await on the store connection (or on the collaborator) to the next. *)
(***************************************************************************)
Locals ==
    [sql |-> <<>>, mode |-> "", summary |-> "", error |-> "",
     stmts |-> <<>>, i |-> 0, ok |-> FALSE, raised |-> FALSE, res |-> {},
     report |-> "",
     \* history of the call, for the properties below
     stages |-> <<>>, ran |-> FALSE, before |-> SCHEMA, executed |-> <<>>,
     logOwnTx |-> FALSE, dirty |-> FALSE, foreign |-> FALSE]

Init ==
    /\ db = init_db
    /\ disk = init_db
    /\ inTx = FALSE
    /\ pc = [h \in Handlers |-> "idle"]
    /\ req = [h \in Handlers |-> Locals]
    /\ utterances = 0
    /\ candidate = <<>>
    /\ verdict = [done |-> FALSE, ok |-> FALSE, stmts |-> <<>>]
    /\ limit = DefaultLimit
    /\ shown = NothingShown

Goto(h, label) == pc' = [pc EXCEPT ![h] = label]

\* on_message returns: its locals are gone, the user has the report.
Finished(h, report, stages) ==
    [Locals EXCEPT !.report = report, !.stages = stages, !.foreign = req[h].foreign]

\* Mutant: the script is walked from its end.
NextStatement_reversed(stmts, i) == stmts[Len(stmts) + 1 - i]

\* for s in stmts: the statement of the i-th iteration
NextStatement(stmts, i) == stmts[i]

\* INSERT INTO tx_log(user, sql_text, summary, success) VALUES(?,?,?,?)
LogRecord(t, user, sql_text, summary, success) ==
    [t EXCEPT
        !.tx_log = @ \cup {[id |-> t.logSeq + 1, user |-> user, sql_text |-> sql_text,
                            summary |-> summary, success |-> success]},
        !.logSeq = @ + 1]

\* db.commit(): what the connection wrote becomes durable, whoever wrote it.
CommitBy(h) ==
    /\ disk' = db
    /\ inTx' = FALSE

AfterCommit(h, mine) ==
    [g \in Handlers |->
        IF g = h
        THEN [mine EXCEPT !.dirty = FALSE,
                          !.foreign = @ \/ \E o \in Handlers \ {h} : req[o].dirty]
        ELSE [req[g] EXCEPT !.dirty = FALSE]]

\* on_message, lines 351-357: a text message starts a pipeline run.
on_message_receive(h) ==
    /\ pc[h] \in {"idle", "done"}
    /\ utterances < MaxUtterances
    /\ utterances' = utterances + 1
    /\ req' = [req EXCEPT ![h] = [Locals EXCEPT !.stages = <<"received">>]]
    /\ Goto(h, "context")
    /\ UNCHANGED <<db, disk, inTx, candidate, verdict, limit, shown>>

\* on_message, lines 351-352: no text, or a command: nothing happens.
on_message_ignore(h) ==
    /\ pc[h] \in {"idle", "done"}
    /\ utterances < MaxUtterances
    /\ utterances' = utterances + 1
    /\ UNCHANGED <<db, disk, inTx, pc, req, candidate, verdict, limit, shown>>

\* ask_llm, line 238: build_stock_context reads stock and items.
ask_llm_context(h) ==
    /\ pc[h] = "context"
    /\ req' = [req EXCEPT ![h].stages = Append(@, "context")]
    /\ Goto(h, "llm")
    /\ UNCHANGED <<db, disk, inTx, utterances, candidate, verdict, limit, shown>>

\* ask_llm returns (or raises what it does not catch); on_message lines
\* 359-391 up to run_sql's first await.  menu: what the collaborator may answer.
on_message_payload(h, menu) ==
    /\ pc[h] = "llm"
    /\ \E p \in menu :
        LET got == [req[h] EXCEPT !.sql = p.sql, !.mode = p.mode,
                                  !.summary = p.summary, !.error = p.error,
                                  !.stages = Append(@, "candidate")]
            stmts == validate_sql(p.sql)
            told == Append(got.stages, "reported")
        IN
            IF p.uncaught
            THEN /\ req' = [req EXCEPT ![h] = Finished(h, "", req[h].stages)]
                 /\ Goto(h, "done")
            ELSE IF ~p.isDict
            THEN /\ req' = [req EXCEPT ![h] = Finished(h, "parse_error", told)]
                 /\ Goto(h, "done")
            ELSE IF p.error # ""
            THEN /\ req' = [req EXCEPT ![h] = [got EXCEPT !.report = "business_error",
                                                          !.stages = told]]
                 /\ Goto(h, "errlog")
            ELSE IF ~FormatOk(p)
            THEN /\ req' = [req EXCEPT ![h] = Finished(h, "format_error", told)]
                 /\ Goto(h, "done")
            ELSE IF ~stmts.ok
            THEN /\ req' = [req EXCEPT ![h] = Finished(h, "rejected",
                                Append(Append(got.stages, "validate"), "reported"))]
                 /\ Goto(h, "done")
            ELSE /\ req' = [req EXCEPT ![h] = [got EXCEPT !.stmts = stmts.stmts,
                                                          !.report = "running",
                                                          !.stages = Append(@, "validate")]]
                 /\ Goto(h, "begin")
    /\ UNCHANGED <<db, disk, inTx, utterances, candidate, verdict, limit, shown>>

\* Mutant: the business error is reported and not logged.
on_message_error_log_skipped(h) ==
    /\ pc[h] = "errlog"
    /\ Goto(h, "errcommit")
    /\ UNCHANGED <<db, disk, inTx, req, utterances, candidate, verdict, limit, shown>>

\* on_message, lines 369-372: the failed audit record of a business error.
on_message_error_log(h) ==
    /\ pc[h] = "errlog"
    /\ db' = LogRecord(db, Username(h), Prompt, req[h].error, 0)
    /\ inTx' = TRUE
    /\ UNCHANGED req
    /\ Goto(h, "errcommit")
    /\ UNCHANGED <<disk, utterances, candidate, verdict, limit, shown>>

\* on_message, line 373
on_message_error_commit(h) ==
    /\ pc[h] = "errcommit"
    /\ CommitBy(h)
    /\ req' = AfterCommit(h, Finished(h, req[h].report, req[h].stages))
    /\ Goto(h, "done")
    /\ UNCHANGED <<db, utterances, candidate, verdict, limit, shown>>

\* run_sql, line 260: BEGIN fails when the connection is inside a transaction.
run_sql_begin(h) ==
    /\ pc[h] = "begin"
    /\ IF inTx
       THEN /\ req' = [req EXCEPT ![h].ran = TRUE, ![h].before = db,
                                  ![h].raised = TRUE,
                                  ![h].stages = Append(@, "run")]
            /\ Goto(h, "log")
            /\ UNCHANGED inTx
       ELSE /\ req' = [req EXCEPT ![h].ran = TRUE, ![h].before = db, ![h].i = 1,
                                  ![h].stages = Append(@, "run")]
            /\ Goto(h, "stmt")
            /\ inTx' = TRUE
    /\ UNCHANGED <<db, disk, utterances, candidate, verdict, limit, shown>>

\* run_sql, lines 261-264: one statement of the script.
run_sql_execute(h) ==
    /\ pc[h] = "stmt"
    /\ LET s == NextStatement(req[h].stmts, req[h].i)
           r == Execute(db, s)
           open == inTx \/ IsDml(s)
           me == [req[h] EXCEPT !.executed = Append(@, s)]
       IN
           /\ db' = r.t
           /\ inTx' = open
           /\ disk' = IF open THEN disk ELSE r.t
           /\ IF ~r.ok
              THEN /\ req' = [req EXCEPT ![h] = [me EXCEPT !.raised = TRUE]]
                   /\ Goto(h, "log")
              ELSE /\ req' = [req EXCEPT ![h] =
                        [me EXCEPT !.i = @ + 1,
                                   !.res = IF me.mode = "read" THEN r.rows ELSE @,
                                   !.dirty = @ \/ (open /\ r.t # db)]]
                   /\ Goto(h, IF req[h].i = Len(req[h].stmts) THEN "commit" ELSE "stmt")
    /\ UNCHANGED <<utterances, candidate, verdict, limit, shown>>

\* run_sql, lines 265-266
run_sql_commit(h) ==
    /\ pc[h] = "commit"
    /\ CommitBy(h)
    /\ req' = AfterCommit(h, [req[h] EXCEPT !.ok = TRUE])
    /\ Goto(h, "log")
    /\ UNCHANGED <<db, utterances, candidate, verdict, limit, shown>>

\* run_sql, lines 268-273: the audit record, whatever happened before.
run_sql_log(h) ==
    /\ pc[h] = "log"
    /\ db' = LogRecord(db, Username(h), Join(req[h].stmts), req[h].summary,
                       IF req[h].ok THEN 1 ELSE 0)
    /\ inTx' = TRUE
    /\ req' = [req EXCEPT ![h].logOwnTx = ~inTx]
    /\ Goto(h, "logcommit")
    /\ UNCHANGED <<disk, utterances, candidate, verdict, limit, shown>>

\* run_sql, line 274, and on_message, lines 392-407: the report.
run_sql_log_commit(h) ==
    /\ pc[h] = "logcommit"
    /\ CommitBy(h)
    /\ req' = AfterCommit(h, Finished(h,
                IF req[h].raised THEN "db_error"
                ELSE IF req[h].mode = "read" THEN "rows" ELSE "success",
                Append(req[h].stages, "reported")))
    /\ Goto(h, "done")
    /\ UNCHANGED <<db, utterances, candidate, verdict, limit, shown>>

\* The program: the dispatcher runs a handler task per message, and the
\* tasks take turns at every await.
Next ==
    \/ \E h \in Handlers : on_message_receive(h)
    \/ \E h \in Handlers : on_message_ignore(h)
    \/ \E h \in Handlers : ask_llm_context(h)
    \/ \E h \in Handlers : on_message_payload(h, Payloads)
    \/ \E h \in Handlers : on_message_error_log(h)
    \/ \E h \in Handlers : on_message_error_commit(h)
    \/ \E h \in Handlers : run_sql_begin(h)
    \/ \E h \in Handlers : run_sql_execute(h)
    \/ \E h \in Handlers : run_sql_commit(h)
    \/ \E h \in Handlers : run_sql_log(h)
    \/ \E h \in Handlers : run_sql_log_commit(h)

Spec == Init /\ [][Next]_vars

\* The program when every message arrives after the previous one was answered.
Quiet(h) == \A g \in Handlers \ {h} : pc[g] \in {"idle", "done"}

NextSeq ==
    \/ \E h \in Handlers : Quiet(h) /\ on_message_receive(h)
    \/ \E h \in Handlers : Quiet(h) /\ on_message_ignore(h)
    \/ \E h \in Handlers : Quiet(h) /\ ask_llm_context(h)
    \/ \E h \in Handlers : Quiet(h) /\ on_message_payload(h, Payloads \cup MorePayloads)
    \/ \E h \in Handlers : Quiet(h) /\ on_message_error_log(h)
    \/ \E h \in Handlers : Quiet(h) /\ on_message_error_commit(h)
    \/ \E h \in Handlers : Quiet(h) /\ run_sql_begin(h)
    \/ \E h \in Handlers : Quiet(h) /\ run_sql_execute(h)
    \/ \E h \in Handlers : Quiet(h) /\ run_sql_commit(h)
    \/ \E h \in Handlers : Quiet(h) /\ run_sql_log(h)
    \/ \E h \in Handlers : Quiet(h) /\ run_sql_log_commit(h)

SpecSeq == Init /\ [][NextSeq]_vars


(***************************************************************************)
(* validate_sql on its own: a candidate script is a list of fragments,     *)
(* each a statement (or nothing) between blanks, written out with ";"      *)
(* between the fragments.                                                  *)
(***************************************************************************)
Frag(l, core, r) == [l |-> l, core |-> core, r |-> r]

Cores ==
    { stSelect, stAddItem, stTake5A1, stDelA1, stDelA1Rev, stDelByItem, stDelStock,
      stDelItems,
      stCteDelStock, stCteDelItems, stDrop,
      <<"delete", "from", "Items">>,
      <<"drop", "TABLE", "stock">>,
      <<"ALTER", "TABLE", "stock">>,
      <<"TRUNCATE", "stock">>,
      <<"Pragma", "foreign_keys">>,
      <<"ATTACH", "x">>,
      <<"DETACH", "x">>,
      <<"VACUUM">> }

Fragments ==
    {Frag(<<>>, c, <<>>) : c \in Cores}
        \cup {Frag(<<" ">>, c, <<"<nl>", " ">>) : c \in {stSelect, stDrop, stDelItems}}
        \cup {Frag(<<>>, <<>>, <<>>), Frag(<<"<nl>">>, <<>>, <<" ">>)}

\* Up to MaxFrags fragments: one fragment repeated, another one at one place.
CandidateScripts ==
    {[n \in 1..len |-> IF n = p THEN f ELSE b] :
        len \in 0..MaxFrags, p \in 1..MaxFrags, b \in Fragments, f \in Fragments}

RECURSIVE ScriptText(_)
ScriptText(frags) ==
    IF frags = <<>> THEN <<>>
    ELSE LET f == frags[1].l \o frags[1].core \o frags[1].r IN
            IF Len(frags) = 1 THEN f ELSE f \o <<";">> \o ScriptText(Tail(frags))

InitV ==
    /\ Init!1 /\ Init!2 /\ Init!3 /\ Init!4 /\ Init!5 /\ Init!6
    /\ Init!9 /\ Init!10
    /\ candidate \in CandidateScripts
    /\ verdict = [done |-> FALSE, ok |-> FALSE, stmts |-> <<>>]

validate ==
    /\ ~verdict.done
    /\ verdict' = [done |-> TRUE,
                   ok |-> validate_sql(ScriptText(candidate)).ok,
                   stmts |-> validate_sql(ScriptText(candidate)).stmts]
    /\ UNCHANGED <<db, disk, inTx, pc, req, utterances, candidate, limit, shown>>

NextV == validate

SpecV == InitV /\ [][NextV]_vars

(***************************************************************************)
(* cmd_logs on its own, over audit logs as the pipeline leaves them: ids   *)
(* count up from 1, and ts, the second of the insert, never goes back.     *)
(* The pipeline specifications leave ts out: only cmd_logs reads it.       *)
(***************************************************************************)
Seconds == {"one second", "two seconds", "a second each"}
Oddities == {"none", "failed", "no summary"}

\* n records; the clock moves after record k; record j may be an oddity.
AuditLog(n, seconds, k, j, oddity) ==
    {[id |-> m,
      ts |-> CASE seconds = "one second" -> 0
               [] seconds = "two seconds" -> IF m <= k THEN 0 ELSE 1
               [] OTHER -> m,
      user |-> "alice", sql_text |-> stSelect,
      summary |-> IF m = j /\ oddity = "no summary" THEN "" ELSE "moved 5",
      success |-> IF m = j /\ oddity = "failed" THEN 0 ELSE 1] : m \in 1..n}

AuditLogs ==
    {AuditLog(n, seconds, k, j, oddity) :
        n \in 0..MaxLog, seconds \in Seconds, k \in 1..MaxLog,
        j \in {1, 2, MaxLog - 1, MaxLog}, oddity \in Oddities}

InitLogs ==
    /\ \E log \in AuditLogs :
        /\ db = [init_db EXCEPT !.tx_log = log, !.logSeq = Cardinality(log)]
        /\ disk = db
    /\ Init!3 /\ Init!4 /\ Init!5 /\ Init!6 /\ Init!7 /\ Init!8 /\ Init!9 /\ Init!10

\* ORDER BY ts DESC says nothing of records of the same second: SQLite's
\* sorter hands them out oldest first; the other order is as legal.
TieOrders == {"oldest first", "newest first"}

LogsBefore(a, b, tie) ==
    \/ a.ts > b.ts
    \/ a.ts = b.ts /\ IF tie = "oldest first" THEN a.id < b.id ELSE a.id > b.id

\* SELECT ... WHERE success = 1 AND summary IS NOT NULL AND summary != ''
\* ORDER BY ts DESC LIMIT 15
LogsQuery(t, tie) ==
    LET q == {r \in t.tx_log : r.success = 1 /\ r.summary # ""}
        place(r) == 1 + Cardinality({x \in q : LogsBefore(x, r, tie)})
        n == IF Cardinality(q) < LogsLimit THEN Cardinality(q) ELSE LogsLimit
    IN  [p \in 1..n |-> CHOOSE r \in q : place(r) = p]

\* cmd_logs: the rows of the query, one line each (none: the "nothing yet" text).
cmd_logs ==
    /\ \E tie \in TieOrders :
        shown' = [done |-> TRUE, by |-> "cmd_logs",
                  lines |-> LogsQuery(db, tie), more |-> FALSE]
    /\ UNCHANGED <<db, disk, inTx, pc, req, utterances, candidate, verdict, limit>>

NextLogs == cmd_logs

SpecLogs == InitLogs /\ [][NextLogs]_vars

(***************************************************************************)
(* build_stock_context on its own, over stores the pipeline can leave:     *)
(* one item in the first n cells, and the rows accepted scripts add.       *)
(***************************************************************************)
\* Text order (NOCASE) of the names, the sizes and the cell codes of the model;
\* NULL sorts before every text.
NameOrder == <<"bolt", "tape">>
SizeOrder == <<"NULL", "L", "M", "S", "XL", "XS", "XXL", "XXXL">>
RowOrder == <<"A", "B", "V", "G", "D", "E">>
ColOrder == <<1, 10, 2, 3, 4, 5, 6, 7, 8, 9>>
LocationOrder ==
    [p \in 1..60 |-> RowOrder[((p - 1) \div 10) + 1] \o ToString(ColOrder[((p - 1) % 10) + 1])]

Place(order, x) == CHOOSE p \in 1..Len(order) : Fold(order[p]) = Fold(x)

\* The cells as one walks them: A1, A2, ..., A10, B1, ...
Cell(p) == RowOrder[((p - 1) \div 10) + 1] \o ToString(((p - 1) % 10) + 1)

SomeItems ==
    {[id |-> 1, name |-> "bolt", size |-> "L"],
     [id |-> 2, name |-> "tape", size |-> "NULL"],
     [id |-> 3, name |-> "tape", size |-> "NULL"]}

StockRow(id, code, qty) == [item_id |-> id, location_code |-> code, qty |-> qty]

ExtraRows ==
    { {}, {StockRow(2, "A1", 5)}, {StockRow(2, "A1", 5), StockRow(3, "A1", 7)},
      {StockRow(Null, "A1", 5)}, {StockRow(2, "A1", 5), StockRow(Null, "A1", 5)} }

InitContext ==
    /\ \E n \in 0..MaxStock, extra \in ExtraRows :
        /\ db = [init_db EXCEPT
                    !.items = SomeItems, !.itemSeq = 3,
                    !.stock = {StockRow(1, Cell(p), 3) : p \in 1..n} \cup extra]
        /\ disk = db
    /\ Init!3 /\ Init!4 /\ Init!5 /\ Init!6 /\ Init!7 /\ Init!8
    /\ limit \in {0, 1, 2, DefaultLimit}
    /\ Init!10

\* FROM stock JOIN items ON items.id = stock.item_id, with the selected columns
ContextRows(t) ==
    {[name |-> p[2].name, size |-> p[2].size, location_code |-> p[1].location_code,
      qty |-> p[1].qty, item_id |-> p[2].id] :
        p \in {p \in t.stock \X t.items : p[1].item_id = p[2].id}}

\* ORDER BY items.name, items.size, stock.location_code
KeyBefore(a, b) ==
    LET an == Place(NameOrder, a.name)  bn == Place(NameOrder, b.name)
        az == Place(SizeOrder, a.size)  bz == Place(SizeOrder, b.size)
        al == Place(LocationOrder, a.location_code)
        bl == Place(LocationOrder, b.location_code)
    IN  \/ an < bn
        \/ an = bn /\ az < bz
        \/ an = bn /\ az = bz /\ al < bl

\* Rows of one key come in the order of the scan, the same for the same store.
ContextBefore(a, b) ==
    KeyBefore(a, b) \/ (~KeyBefore(b, a) /\ a.item_id < b.item_id)

\* build_stock_context, lines 219-235: rows[:limit], and the mark if there are more.
build_stock_context ==
    /\ LET rows == ContextRows(db)
           place(r) == 1 + Cardinality({x \in rows : ContextBefore(x, r)})
           n == IF Cardinality(rows) < limit THEN Cardinality(rows) ELSE limit
       IN  shown' = [done |-> TRUE, by |-> "build_stock_context",
                     lines |-> [p \in 1..n |-> CHOOSE r \in rows : place(r) = p],
                     more |-> Cardinality(rows) > limit]
    /\ UNCHANGED <<db, disk, inTx, pc, req, utterances, candidate, verdict, limit>>

NextContext == build_stock_context

SpecContext == InitContext /\ [][NextContext]_vars

\* The statements of the candidate as it was written: its non-blank fragments.
HasCore(f) == f.core # <<>>
Written == [n \in 1..Len(SelectSeq(candidate, HasCore)) |->
                SelectSeq(candidate, HasCore)[n].core]

DenylistSpellings ==
    {"DROP", "drop", "ALTER", "TRUNCATE", "PRAGMA", "Pragma", "ATTACH", "DETACH"}

\* C4: a script with a statement, at any place, that begins with a denylisted
\* verb (in any letter case, after blanks) is rejected as a whole.
C4_DenylistRejects ==
    (verdict.done /\ \E n \in 1..Len(Written) : Written[n][1] \in DenylistSpellings)
        => ~verdict.ok

C4_Witness ==
    /\ verdict.done /\ ~verdict.ok
    /\ Len(candidate) >= 3
    /\ candidate[1].core = stSelect /\ candidate[2].core = stSelect
    /\ candidate[3].l # <<>> /\ candidate[3].core = stDrop

\* C5: a script of 0 or of more than 6 statements is rejected; one of 1..6
\* statements that all pass the per-statement rules is accepted and returned
\* as the list of its trimmed statements, in order.
C5_CountAndOrder ==
    verdict.done =>
        /\ (Len(Written) = 0 \/ Len(Written) > 6) => ~verdict.ok
        /\ (Len(Written) \in 1..6 /\ \A n \in 1..Len(Written) : StatementOk(Written[n]))
                => (verdict.ok /\ verdict.stmts = Written)

C5_Witness ==
    /\ verdict.done /\ verdict.ok
    /\ Len(verdict.stmts) = 6
    /\ \E n \in 1..Len(candidate) : candidate[n].l # <<>> /\ candidate[n].r # <<>>
    /\ \E n \in 1..Len(candidate) : candidate[n].core = stTake5A1

\* C6: a script with a statement that deletes from items, with or without a
\* common-table-expression in front, is rejected.
C6_ItemsDeleteRejected ==
    (verdict.done /\ \E n \in 1..Len(Written) :
            Parse(Written[n]).kind = "delete" /\ Parse(Written[n]).table = "items")
        => ~verdict.ok

\* C7: a script with a statement that deletes from stock without constraining
\* both item_id and location_code, with or without a common-table-expression
\* in front, is rejected.
C7_StockDeleteRejected ==
    (verdict.done /\ \E n \in 1..Len(Written) :
            /\ Parse(Written[n]).kind = "delete"
            /\ Parse(Written[n]).table = "stock"
            /\ ~({"item_id", "location_code"}
                    \subseteq {c[1] : c \in Parse(Written[n]).conds}))
        => ~verdict.ok

\* Both column names stand in the where-clause, in whichever order.
BothInWhere(s) ==
    \E i \in 1..Len(s) :
        /\ Fold(s[i]) = "WHERE"
        /\ \E j \in (i + 1)..Len(s) : Fold(s[j]) = "item_id"
        /\ \E k \in (i + 1)..Len(s) : Fold(s[k]) = "location_code"

\* C17: a script of 1..6 statements, each a DELETE FROM stock whose
\* where-clause names both item_id and location_code, in either order, is
\* accepted.
C17_StockDeleteAnyOrder ==
    (/\ verdict.done
     /\ Len(Written) \in 1..6
     /\ \A n \in 1..Len(Written) :
            DeleteFromAtStart(Written[n], "stock") /\ BothInWhere(Written[n]))
        => verdict.ok


(***************************************************************************)
(* The pipeline and the executor.                                          *)
(***************************************************************************)
IsPrefix(a, b) == Len(a) <= Len(b) /\ \A k \in 1..Len(a) : a[k] = b[k]

SameData(t, u) ==
    t.items = u.items /\ t.locations = u.locations /\ t.stock = u.stock

\* run_sql returns to on_message (or raises into it) in this step.
Returns(h) == pc[h] = "logcommit" /\ pc'[h] = "done"

\* C1: when a statement of the script fails, nothing the script's earlier
\* statements did persists: when the call returns, items, locations and stock
\* are as they were before the call, and the caller gets the failure.
C1_FailedRunLeavesStoreUnchanged ==
    [][\A h \in Handlers :
        (Returns(h) /\ req[h].raised)
            => (SameData(disk', req[h].before) /\ req'[h].report = "db_error")]_vars

\* C2: a call of run_sql appends exactly one audit record, written outside
\* the data transaction, with the actor, the joined script and the summary,
\* and success = 1 exactly when every statement ran and the commit was made.
C2_OneAuditRecordOwnStep ==
    [][\A h \in Handlers :
        Returns(h)
            => /\ {r \in disk'.tx_log : r.id > req[h].before.logSeq}
                    = {[id |-> req[h].before.logSeq + 1,
                        user |-> Username(h),
                        sql_text |-> Join(req[h].stmts),
                        summary |-> req[h].summary,
                        success |-> IF req[h].executed = req[h].stmts /\ ~req[h].raised
                                    THEN 1 ELSE 0]}
               /\ req[h].logOwnTx]_vars

\* C3: a statement reaches the store only after validate_sql accepted the
\* whole script, and the statements run are the list validate_sql returned,
\* in its order.
C3_OnlyValidatedInOrder ==
    \A h \in Handlers :
        (req[h].ran \/ req[h].executed # <<>> \/ pc[h] = "begin")
            => LET v == validate_sql(req[h].sql) IN
                /\ v.ok
                /\ req[h].stmts = v.stmts
                /\ IsPrefix(req[h].executed, v.stmts)
                /\ req[h].ok => req[h].executed = v.stmts

C3_Witness ==
    \E h \in Handlers :
        /\ pc[h] = "logcommit" /\ req[h].ok
        /\ req[h].executed = <<stAddItem, stPut3A1>>
        /\ req[h].sql # Join(req[h].executed)

\* C8: the store operations of two requests never interleave, so that no
\* commit issued for one request makes durable what another request wrote
\* and has not committed yet.
C8_NoForeignCommit == \A h \in Handlers : ~req[h].foreign

\* C9: an audit record, once committed, is never updated or deleted.
C9_AuditAppendOnly == [][disk.tx_log \subseteq disk'.tx_log]_vars

\* C10: the locations table is the seeded set of 60 codes in every state.
C10_LocationsImmutable ==
    /\ disk.locations = init_db.locations
    /\ Cardinality(disk.locations) = 60

(***************************************************************************)
(* The store's invariants.                                                 *)
(***************************************************************************)
\* C11: no stock row, committed or written on the connection, has a quantity
\* of zero or below: a write that would bring a row there fails.
C11_NoNonPositiveStock ==
    \A s \in disk.stock \cup db.stock : s.qty = Null \/ s.qty > 0

\* A take of 5 from a row of 3 has just failed, and the row is still there.
C11_Witness ==
    \E h \in Handlers :
        /\ pc[h] = "logcommit" /\ req[h].raised
        /\ req[h].executed # <<>>
        /\ req[h].executed[Len(req[h].executed)] = stTake5A1
        /\ \E s \in db.stock : s.location_code = "A1" /\ s.qty = 3

\* C14: no two item rows have the same name (letter case aside) and the same
\* size, "no size" included.
C14_ItemsUnique ==
    \A i, j \in disk.items :
        (Fold(i.name) = Fold(j.name) /\ i.size = j.size) => i = j

\* C15: a script run with mode read changes nothing: when run_sql returns,
\* items, locations and stock are as they were before the call.
C15_ReadModeNoMutation ==
    [][\A h \in Handlers :
        (Returns(h) /\ req[h].mode = "read")
            => SameData(disk', req[h].before)]_vars

\* C20: every committed stock row references an item and a location that
\* exist.
C20_ReferentialIntegrity ==
    \A s \in disk.stock :
        /\ \E i \in disk.items : i.id = s.item_id
        /\ \E l \in disk.locations : Fold(l.code) = Fold(s.location_code)

(***************************************************************************)
(* The pipeline's failure paths.                                           *)
(***************************************************************************)
\* No other request has written to the connection without committing.
NoForeignWrites(h) == \A o \in Handlers \ {h} : ~req[o].dirty

\* C12: on a structured error of the collaborator the pipeline appends exactly
\* one audit record, with success = 0 and the error text as summary, calls
\* neither validate_sql nor run_sql, and leaves items, locations and stock
\* as they were.
C12_BusinessErrorLogged ==
    [][\A h \in Handlers :
        /\ (pc[h] = "llm" /\ pc'[h] = "errlog")
                => /\ req'[h].error # "" /\ req'[h].report = "business_error"
                   /\ db' = db /\ disk' = disk
        /\ (pc[h] = "errlog" /\ pc'[h] # "errlog")
                => /\ pc'[h] = "errcommit"
                   /\ SameData(db', db) /\ disk' = disk
                   /\ db'.tx_log \ db.tx_log =
                        {[id |-> db.logSeq + 1, user |-> Username(h), sql_text |-> Prompt,
                          summary |-> req[h].error, success |-> 0]}
                   /\ db.tx_log \subseteq db'.tx_log
        /\ (pc[h] = "errcommit" /\ pc'[h] # "errcommit")
                => /\ pc'[h] = "done" /\ req'[h].report = "business_error"
                   /\ db' = db /\ disk' = db
                   /\ NoForeignWrites(h) => SameData(disk', disk)
                   /\ ~req[h].ran /\ req[h].stmts = <<>>
                   /\ \A k \in 1..Len(req'[h].stages) :
                        req'[h].stages[k] \notin {"validate", "run"}]_vars

\* The error was logged and reported while the store held stock.
C12_Witness ==
    \E h \in Handlers :
        /\ pc[h] = "done" /\ req[h].report = "business_error"
        /\ disk.stock # {}
        /\ \E r \in disk.tx_log :
                r.user = Username(h) /\ r.summary = "not enough" /\ r.success = 0

HasStage(stages, name) == \E k \in 1..Len(stages) : stages[k] = name

\* C13: a payload that is a format failure (no object, no sql, a mode other
\* than read and write) or that validate_sql rejects ends the pipeline at
\* once: no table changes, no audit record is written, run_sql is not called,
\* and for a format failure validate_sql is not called either.  Said from the
\* other side: run_sql is reached only with an object that has sql, a mode of
\* read or write, and a script validate_sql accepts.
C13_FailuresTouchNothing ==
    [][\A h \in Handlers :
        (pc[h] = "llm" /\ pc'[h] # "llm")
            => /\ pc'[h] \in {"done", "errlog", "begin"}
               /\ pc'[h] = "done"
                    => /\ db' = db /\ disk' = disk /\ inTx' = inTx
                       /\ req'[h].report \in {"parse_error", "format_error", "rejected", ""}
                       /\ ~req'[h].ran /\ ~HasStage(req'[h].stages, "run")
                       /\ req'[h].report \in {"parse_error", "format_error"}
                            => ~HasStage(req'[h].stages, "validate")
               /\ pc'[h] = "begin"
                    => /\ req'[h].sql # <<>>
                       /\ req'[h].mode \in {"read", "write"}
                       /\ req'[h].error = ""
                       /\ validate_sql(req'[h].sql).ok]_vars

\* A script was rejected while the store held stock and audit records.
C13_Witness ==
    \E h \in Handlers :
        /\ pc[h] = "done" /\ req[h].report = "rejected"
        /\ HasStage(req[h].stages, "validate")
        /\ disk.stock # {} /\ disk.tx_log # {}

\* The paths of the state machine: received, context built, candidate
\* obtained, then validated, executed and reported, or reported as a failure.
Paths ==
    { <<"received", "context", "candidate", "validate", "run", "reported">>,
      <<"received", "context", "candidate", "validate", "reported">>,
      <<"received", "context", "candidate", "reported">> }

Reports ==
    {"parse_error", "business_error", "format_error", "rejected",
     "db_error", "rows", "success"}

\* C16: a handled utterance never stops without its one report, and its
\* stages follow the state machine, none of them twice.
C16_EveryUtteranceReported ==
    \A h \in Handlers :
        /\ \E path \in Paths : IsPrefix(req[h].stages, path)
        /\ pc[h] = "done" => (req[h].report \in Reports /\ req[h].stages \in Paths)

(***************************************************************************)
(* The commands that read the store.                                       *)
(***************************************************************************)
Qualifies(r) == r.success = 1 /\ r.summary # ""

\* C18: cmd_logs shows at most 15 records, all successful and with a
\* summary, newest first by the order they were appended in, and leaves out
\* no such record that is newer than one it shows, records of one second
\* included.
C18_NewestFirst ==
    (shown.done /\ shown.by = "cmd_logs") =>
        LET l == shown.lines IN
            /\ Len(l) <= LogsLimit
            /\ \A p \in 1..Len(l) : l[p] \in db.tx_log /\ Qualifies(l[p])
            /\ \A p, q \in 1..Len(l) : p < q => l[p].id > l[q].id
            /\ \A r \in db.tx_log :
                    (Qualifies(r) /\ \E p \in 1..Len(l) : l[p].id < r.id)
                        => \E p \in 1..Len(l) : l[p] = r

\* C19: build_stock_context lists the first `limit` stock rows in the order
\* (item name, size, location), adds the mark exactly when the store holds
\* more than `limit` stock rows, changes no table, and builds the same text
\* when called again on the same store.
C19_ContextListing ==
    [][(shown'.done /\ shown'.by = "build_stock_context") =>
        LET l == shown'.lines
            held == Cardinality(db.stock)
        IN  /\ Len(l) = IF held < limit THEN held ELSE limit
            /\ \A p \in 1..Len(l) :
                    StockRow(l[p].item_id, l[p].location_code, l[p].qty) \in db.stock
            /\ \A p, q \in 1..Len(l) : p < q => ~KeyBefore(l[q], l[p])
            /\ \A r \in ContextRows(db) :
                    (\E p \in 1..Len(l) : KeyBefore(r, l[p]))
                        => \E p \in 1..Len(l) : l[p] = r
            /\ shown'.more <=> held > limit
            /\ db' = db /\ disk' = disk
            /\ shown.done => shown' = shown]_vars

====
